---- MODULE Spec2Model ----
(***************************************************************************)
(* Tank calibration engine (src/services/dataProcessor.ts): piecewise      *)
(* linear interpolation over a calibration curve, point and delivery       *)
(* validation, and deviation statistics.                                   *)
(*                                                                         *)
(* Numbers are exact rationals [n, d] in lowest terms with d > 0, so the   *)
(* arithmetic of the source is modelled as real arithmetic (IEEE rounding  *)
(* is modelled for the resampling grid only).                              *)
(*                                                                         *)
(* The wizard (App) holds the React state of the application; the engine   *)
(* instances leave it in its initial state.                                *)
(***************************************************************************)
EXTENDS Integers, Sequences, FiniteSets, TLC

\* One call of an engine function: its curve, its inputs and its result.
VARIABLES chartData, op, target, points, result

\* The state of App and the asynchronous operations in flight.
VARIABLES step, chartFile, projectFileName, isLoading, error, successMessage,
          processedData, validationStats, deliveryValidationData, reportConfig,
          pending

engineVars == <<chartData, op, target, points, result>>

appVars ==
    <<step, chartFile, projectFileName, isLoading, error, successMessage,
      processedData, validationStats, deliveryValidationData, reportConfig,
      pending>>

vars == <<engineVars, appVars>>

(***************************************************************************)
(* Bounds of the checked instances.                                        *)
(***************************************************************************)
MaxCurveLen == 3
MaxHeight == 2
MaxVolume == 1

(***************************************************************************)
(* Rational arithmetic.                                                    *)
(***************************************************************************)
Abs(x) == IF x < 0 THEN -x ELSE x

RECURSIVE GCD(_, _)
GCD(a, b) == IF b = 0 THEN a ELSE GCD(b, a % b)

Rat(n, d) ==
    LET s == IF d < 0 THEN -1 ELSE 1
        g == GCD(Abs(n), Abs(d))
    IN  [n |-> (s * n) \div g, d |-> (s * d) \div g]

ToRat(k) == [n |-> k, d |-> 1]
Zero == ToRat(0)

RAdd(a, b) == Rat(a.n * b.d + b.n * a.d, a.d * b.d)
RSub(a, b) == Rat(a.n * b.d - b.n * a.d, a.d * b.d)
RMul(a, b) == Rat(a.n * b.n, a.d * b.d)
RDiv(a, b) == Rat(a.n * b.d, a.d * b.n)
RLt(a, b) == a.n * b.d < b.n * a.d
RLe(a, b) == a.n * b.d <= b.n * a.d

Min(S) == CHOOSE x \in S : \A y \in S : x <= y
Max(S) == CHOOSE x \in S : \A y \in S : x >= y

(***************************************************************************)
(* types.ts: ProcessedData restricted to the fields a calibration curve    *)
(* carries.                                                                *)
(***************************************************************************)
Point(h, v) == [height |-> ToRat(h), chartVolume |-> ToRat(v)]

\* The copy left in the order the caller supplied, without the sort.
sortedChartUnsorted(data) == data

(***************************************************************************)
(* [...chartData].sort((a, b) => a.height - b.height): Array.prototype.sort*)
(* is stable, so the element at input index i lands after every element of *)
(* smaller height and after every earlier element of equal height.         *)
(***************************************************************************)
sortedChart(data) ==
    LET n == Len(data)
        pos(i) == 1 + Cardinality({j \in 1..n :
                        \/ RLt(data[j].height, data[i].height)
                        \/ (data[j].height = data[i].height /\ j < i)})
    IN  [k \in 1..n |-> data[CHOOSE i \in 1..n : pos(i) = k]]

\* The JavaScript values undefined, NaN and null, and the test for a finite number.
Undefined == [special |-> "undefined"]
NaN == [special |-> "NaN"]
Null == [special |-> "null"]
IsNum(x) == "n" \in DOMAIN x

\* x || 0 on a number or undefined: undefined, NaN and 0 are falsy.
OrZero(x) == IF IsNum(x) /\ x # Zero THEN x ELSE Zero

\* upper at a knot replaced by lower: the last duplicate wins.
interpolateLowerAtKnot(height, data) ==
    LET sorted == sortedChart(data)
        ups == {i \in 1..Len(sorted) : RLe(height, sorted[i].height)}
        los == {i \in 1..Len(sorted) : RLe(sorted[i].height, height)}
    IN  IF ups = {} \/ los = {}
        THEN IF Len(sorted) = 0 THEN Zero ELSE OrZero(sorted[1].chartVolume)
        ELSE LET upper == sorted[Min(ups)]
                 lower == sorted[Max(los)]
             IN  IF upper.height = lower.height
                 THEN lower.chartVolume
                 ELSE RAdd(lower.chartVolume,
                           RMul(RDiv(RSub(upper.chartVolume, lower.chartVolume),
                                     RSub(upper.height, lower.height)),
                                RSub(height, lower.height)))

\* lower searched without the reverse(): the first point at or below the target.
interpolateNoReverse(height, data) ==
    LET sorted == sortedChart(data)
        ups == {i \in 1..Len(sorted) : RLe(height, sorted[i].height)}
        los == {i \in 1..Len(sorted) : RLe(sorted[i].height, height)}
    IN  IF ups = {} \/ los = {}
        THEN IF Len(sorted) = 0 THEN Zero ELSE OrZero(sorted[1].chartVolume)
        ELSE LET upper == sorted[Min(ups)]
                 lower == sorted[Min(los)]
             IN  IF upper.height = lower.height
                 THEN upper.chartVolume
                 ELSE RAdd(lower.chartVolume,
                           RMul(RDiv(RSub(upper.chartVolume, lower.chartVolume),
                                     RSub(upper.height, lower.height)),
                                RSub(height, lower.height)))

\* out of range clamped to the nearest end of the curve instead of the first point.
interpolateClamped(height, data) ==
    LET sorted == sortedChart(data)
        ups == {i \in 1..Len(sorted) : RLe(height, sorted[i].height)}
        los == {i \in 1..Len(sorted) : RLe(sorted[i].height, height)}
    IN  IF ups = {} \/ los = {}
        THEN IF Len(sorted) = 0 THEN Zero
             ELSE IF ups = {} THEN OrZero(sorted[Len(sorted)].chartVolume)
                  ELSE OrZero(sorted[1].chartVolume)
        ELSE LET upper == sorted[Min(ups)]
                 lower == sorted[Max(los)]
             IN  IF upper.height = lower.height
                 THEN upper.chartVolume
                 ELSE RAdd(lower.chartVolume,
                           RMul(RDiv(RSub(upper.chartVolume, lower.chartVolume),
                                     RSub(upper.height, lower.height)),
                                RSub(height, lower.height)))

\* the offset measured from upper.height instead of lower.height.
interpolateFromUpper(height, data) ==
    LET sorted == sortedChart(data)
        ups == {i \in 1..Len(sorted) : RLe(height, sorted[i].height)}
        los == {i \in 1..Len(sorted) : RLe(sorted[i].height, height)}
    IN  IF ups = {} \/ los = {}
        THEN IF Len(sorted) = 0 THEN Zero ELSE OrZero(sorted[1].chartVolume)
        ELSE LET upper == sorted[Min(ups)]
                 lower == sorted[Max(los)]
             IN  IF upper.height = lower.height
                 THEN upper.chartVolume
                 ELSE RAdd(lower.chartVolume,
                           RMul(RDiv(RSub(upper.chartVolume, lower.chartVolume),
                                     RSub(upper.height, lower.height)),
                                RSub(height, upper.height)))

(***************************************************************************)
(* interpolate(height, chartData)                                          *)
(***************************************************************************)
interpolate(height, data) ==
    LET sorted == sortedChart(data)
        ups == {i \in 1..Len(sorted) : RLe(height, sorted[i].height)}
        los == {i \in 1..Len(sorted) : RLe(sorted[i].height, height)}
    IN  IF ups = {} \/ los = {}
        THEN IF Len(sorted) = 0 THEN Zero ELSE OrZero(sorted[1].chartVolume)
        ELSE LET upper == sorted[Min(ups)]
                 lower == sorted[Max(los)]
             IN  IF upper.height = lower.height
                 THEN upper.chartVolume
                 ELSE RAdd(lower.chartVolume,
                           RMul(RDiv(RSub(upper.chartVolume, lower.chartVolume),
                                     RSub(upper.height, lower.height)),
                                RSub(height, lower.height)))

(***************************************************************************)
(* Inputs of the interpolation instance: every curve of at most            *)
(* MaxCurveLen points in any order, duplicates included, and target        *)
(* heights on the half-integer grid from one below the lowest possible     *)
(* height to one above the highest.                                        *)
(***************************************************************************)
Heights == 0..MaxHeight
Volumes == 0..MaxVolume
CurvePoints == {Point(h, v) : h \in Heights, v \in Volumes}
SeqsUpTo(S, n) == UNION {[1..k -> S] : k \in 0..n}
Curves == SeqsUpTo(CurvePoints, MaxCurveLen)
Targets == {Rat(k, 2) : k \in (-2)..(2 * MaxHeight + 2)}

NoResult == [kind |-> "none"]

(***************************************************************************)
(* App: the steps of the wizard and the state after the first render.      *)
(* reportConfig is modelled by the fields the handlers write.              *)
(***************************************************************************)
UploadChart == 1
Configure == 2
Analysis == 3
ValidateData == 4
FinalReport == 5

DefaultReportConfig ==
    [clientName |-> "Default Client",
     heightHeader |-> "Height (m)",
     volumeHeader |-> "Volume (L)",
     columnOrder |-> "height-volume",
     decimalPlaces |-> 2]

InitApp ==
    /\ step = UploadChart
    /\ chartFile = Null
    /\ projectFileName = Null
    /\ isLoading = FALSE
    /\ error = Null
    /\ successMessage = Null
    /\ processedData = <<>>
    /\ validationStats = Null
    /\ deliveryValidationData = Null
    /\ reportConfig = DefaultReportConfig
    /\ pending = {}

InitInterpolate ==
    /\ chartData \in Curves
    /\ op = "idle"
    /\ target = Zero
    /\ points = <<>>
    /\ result = NoResult
    /\ InitApp

Interpolate ==
    /\ op = "idle"
    /\ \E h \in Targets :
           /\ op' = "interpolate"
           /\ target' = h
           /\ result' = [kind |-> "value", value |-> interpolate(h, chartData)]
           /\ UNCHANGED <<chartData, points, appVars>>

NextInterpolate == Interpolate

SpecInterpolate == InitInterpolate /\ [][NextInterpolate]_vars

(***************************************************************************)
(* Statistics.  -Infinity and Infinity are the sentinels the extrema scans *)
(* start from; every finite deviation lies strictly between them.          *)
(***************************************************************************)
NegInf == [special |-> "-Infinity"]
PosInf == [special |-> "Infinity"]

\* a > b and a < b for a finite a and b finite or a sentinel.
Gt(a, b) == IF IsNum(b) THEN RLt(b, a) ELSE b = NegInf
Lt(a, b) == IF IsNum(b) THEN RLt(a, b) ELSE b = PosInf
Ge(a, b) == IF IsNum(b) THEN RLe(b, a) ELSE b = NegInf

DeviationPoint(h, v) == [height |-> h, value |-> v]

ZeroStats ==
    [totalMeasurements |-> 0,
     averageDeviation |-> Zero,
     maxDeviation |-> DeviationPoint(Zero, Zero),
     minDeviation |-> DeviationPoint(Zero, Zero)]

\* What the scans and the division give on no deviation at all: 0 / 0 and the
\* untouched sentinels.
UnguardedEmptyStats ==
    [totalMeasurements |-> 0,
     averageDeviation |-> NaN,
     maxDeviation |-> DeviationPoint(NegInf, NegInf),
     minDeviation |-> DeviationPoint(PosInf, PosInf)]

\* validDeviations.reduce((sum, dev) => sum + dev, 0)
RECURSIVE SumSeq(_)
SumSeq(s) == IF s = <<>> THEN Zero ELSE RAdd(Head(s), SumSeq(Tail(s)))

\* d !== undefined && d !== null && !isNaN(d)
IsValidDeviation(d) == IsNum(d)

\* >= instead of >: among tied maxima the last record wins.
maxScanLastWins(devs, locs, i, acc) ==
    IF IsValidDeviation(devs[i]) /\ Ge(devs[i], acc.value)
    THEN DeviationPoint(locs[i], devs[i]) ELSE acc

\* One step of the forEach scans: the strict comparisons keep the earliest extreme.
maxScan(devs, locs, i, acc) ==
    IF IsValidDeviation(devs[i]) /\ Gt(devs[i], acc.value)
    THEN DeviationPoint(locs[i], devs[i]) ELSE acc

minScan(devs, locs, i, acc) ==
    IF IsValidDeviation(devs[i]) /\ Lt(devs[i], acc.value)
    THEN DeviationPoint(locs[i], devs[i]) ELSE acc

RECURSIVE maxDeviationFrom(_, _, _, _)
maxDeviationFrom(devs, locs, i, acc) ==
    IF i > Len(devs) THEN acc
    ELSE maxDeviationFrom(devs, locs, i + 1, maxScan(devs, locs, i, acc))

RECURSIVE minDeviationFrom(_, _, _, _)
minDeviationFrom(devs, locs, i, acc) ==
    IF i > Len(devs) THEN acc
    ELSE minDeviationFrom(devs, locs, i + 1, minScan(devs, locs, i, acc))

\* The point statistics without the early return on no valid deviation.
calculateStatsUnguarded(data) ==
    LET devs == [i \in 1..Len(data) |-> data[i].deviation]
        locs == [i \in 1..Len(data) |-> data[i].height]
        validDeviations == SelectSeq(devs, IsValidDeviation)
        totalMeasurements == Len(validDeviations)
    IN  IF totalMeasurements = 0
        THEN UnguardedEmptyStats
        ELSE [totalMeasurements |-> totalMeasurements,
              averageDeviation |->
                  RDiv(SumSeq(validDeviations), ToRat(totalMeasurements)),
              maxDeviation |->
                  maxDeviationFrom(devs, locs, 1, DeviationPoint(NegInf, NegInf)),
              minDeviation |->
                  minDeviationFrom(devs, locs, 1, DeviationPoint(PosInf, PosInf))]

\* The average taken over every record, the ones without a deviation included.
calculateStatsOverAllRecords(data) ==
    LET devs == [i \in 1..Len(data) |-> data[i].deviation]
        locs == [i \in 1..Len(data) |-> data[i].height]
        validDeviations == SelectSeq(devs, IsValidDeviation)
        totalMeasurements == Len(validDeviations)
    IN  IF totalMeasurements = 0
        THEN ZeroStats
        ELSE [totalMeasurements |-> Len(data),
              averageDeviation |->
                  RDiv(SumSeq(validDeviations), ToRat(Len(data))),
              maxDeviation |->
                  maxDeviationFrom(devs, locs, 1, DeviationPoint(NegInf, NegInf)),
              minDeviation |->
                  minDeviationFrom(devs, locs, 1, DeviationPoint(PosInf, PosInf))]

(***************************************************************************)
(* calculateStats(data)                                                    *)
(***************************************************************************)
calculateStats(data) ==
    LET devs == [i \in 1..Len(data) |-> data[i].deviation]
        locs == [i \in 1..Len(data) |-> data[i].height]
        validDeviations == SelectSeq(devs, IsValidDeviation)
        totalMeasurements == Len(validDeviations)
    IN  IF totalMeasurements = 0
        THEN ZeroStats
        ELSE [totalMeasurements |-> totalMeasurements,
              averageDeviation |->
                  RDiv(SumSeq(validDeviations), ToRat(totalMeasurements)),
              maxDeviation |->
                  maxDeviationFrom(devs, locs, 1, DeviationPoint(NegInf, NegInf)),
              minDeviation |->
                  minDeviationFrom(devs, locs, 1, DeviationPoint(PosInf, PosInf))]

(***************************************************************************)
(* Results of an engine call: a returned value or a thrown Error.          *)
(***************************************************************************)
Error(msg) == [kind |-> "error", message |-> msg]

\* Number(row[index]) gave a number, not NaN.
NumericCell(c) == IsNum(c)

(***************************************************************************)
(* processAndAnalyzeData, from the raw rows on: fieldVolumeIndex is -1     *)
(* when no field-volume header was found, and the rows then carry no       *)
(* fieldVolume cell.                                                       *)
(***************************************************************************)
HasFieldVolumeColumn(rows) == rows # <<>> /\ "fieldVolume" \in DOMAIN rows[1]

analyzeRow(row, hasField) ==
    LET fieldVolume == IF hasField THEN row.fieldVolume ELSE Undefined
    IN  [height |-> row.height,
         chartVolume |-> row.chartVolume,
         fieldVolume |-> fieldVolume,
         deviation |-> IF fieldVolume # Undefined /\ NumericCell(fieldVolume)
                       THEN RSub(fieldVolume, row.chartVolume)
                       ELSE Undefined]

IsChartRow(row) == NumericCell(row.height) /\ NumericCell(row.chartVolume)

processAndAnalyzeData(rows) ==
    LET hasField == HasFieldVolumeColumn(rows)
        kept == SelectSeq(rows, IsChartRow)
        data == [i \in 1..Len(kept) |-> analyzeRow(kept[i], hasField)]
    IN  IF Len(data) = 0
        THEN Error("No valid numeric data found.")
        ELSE [kind |-> "chart",
              data |-> data,
              stats |-> IF hasField THEN calculateStats(data) ELSE Null]

(***************************************************************************)
(* processPointValidation, from the raw rows on.                           *)
(***************************************************************************)
IsValidationPoint(p) == NumericCell(p.height) /\ NumericCell(p.fieldVolume)

\* The combined records re-sorted by height.
combinedDataSorted(validationPoints, data) ==
    LET sorted == sortedChart(validationPoints)
    IN  [i \in 1..Len(sorted) |->
            LET chartVolume == interpolate(sorted[i].height, data)
            IN  [height |-> sorted[i].height,
                 chartVolume |-> chartVolume,
                 fieldVolume |-> sorted[i].fieldVolume,
                 deviation |-> RSub(sorted[i].fieldVolume, chartVolume)]]

combinedData(validationPoints, data) ==
    [i \in 1..Len(validationPoints) |->
        LET vp == validationPoints[i]
            chartVolume == interpolate(vp.height, data)
        IN  [height |-> vp.height,
             chartVolume |-> chartVolume,
             fieldVolume |-> vp.fieldVolume,
             deviation |-> RSub(vp.fieldVolume, chartVolume)]]

processPointValidation(rows, data) ==
    LET validationPoints == SelectSeq(rows, IsValidationPoint)
    IN  IF Len(validationPoints) = 0
        THEN Error("No valid validation data points found in the file.")
        ELSE LET combined == combinedData(validationPoints, data)
             IN  [kind |-> "point_validation",
                  combinedData |-> combined,
                  stats |-> calculateStats(combined)]

(***************************************************************************)
(* calculateDeliveryValidation(deliveryPoints, chartData)                  *)
(***************************************************************************)
\* heightBefore and heightAfter exchanged.
deliveryRecordSwapped(before, after, data) ==
    LET chartCalculatedDelivery ==
            RSub(interpolate(before.height, data), interpolate(after.height, data))
    IN  [heightBefore |-> before.height,
         heightAfter |-> after.height,
         reportedDelivery |-> after.delivery,
         chartCalculatedDelivery |-> chartCalculatedDelivery,
         deviation |-> RSub(after.delivery, chartCalculatedDelivery)]

deliveryRecord(before, after, data) ==
    LET chartCalculatedDelivery ==
            RSub(interpolate(after.height, data), interpolate(before.height, data))
    IN  [heightBefore |-> before.height,
         heightAfter |-> after.height,
         reportedDelivery |-> after.delivery,
         chartCalculatedDelivery |-> chartCalculatedDelivery,
         deviation |-> RSub(after.delivery, chartCalculatedDelivery)]

\* The pair is measured from the last reading that produced a record, not from
\* the immediately preceding one.
RECURSIVE deliveryLoopFromLastDelivery(_, _, _, _)
deliveryLoopFromLastDelivery(deliveryPoints, i, data, acc) ==
    IF i > Len(deliveryPoints) THEN acc
    ELSE IF deliveryPoints[i].delivery = Zero
         THEN deliveryLoopFromLastDelivery(deliveryPoints, i + 1, data, acc)
         ELSE LET prev == {j \in 1..(i - 1) :
                              j = 1 \/ deliveryPoints[j].delivery # Zero}
              IN  deliveryLoopFromLastDelivery(deliveryPoints, i + 1, data,
                      Append(acc, deliveryRecord(deliveryPoints[Max(prev)],
                                                 deliveryPoints[i], data)))

\* for (let i = 1; ...): the sequence index i + 1 here is the array index i there.
RECURSIVE deliveryLoop(_, _, _, _)
deliveryLoop(deliveryPoints, i, data, acc) ==
    IF i > Len(deliveryPoints) THEN acc
    ELSE IF deliveryPoints[i].delivery = Zero /\ i - 1 > 0
         THEN deliveryLoop(deliveryPoints, i + 1, data, acc)
         ELSE deliveryLoop(deliveryPoints, i + 1, data,
                  Append(acc, deliveryRecord(deliveryPoints[i - 1],
                                             deliveryPoints[i], data)))

calculateDeliveryValidation(deliveryPoints, data) ==
    LET deliveryData == deliveryLoop(deliveryPoints, 2, data, <<>>)
        totalDeliveries == Len(deliveryData)
        devs == [i \in 1..totalDeliveries |-> deliveryData[i].deviation]
        locs == [i \in 1..totalDeliveries |-> deliveryData[i].heightAfter]
    IN  IF totalDeliveries = 0
        THEN [kind |-> "delivery_validation",
              deliveryData |-> <<>>,
              stats |-> ZeroStats]
        ELSE [kind |-> "delivery_validation",
              deliveryData |-> deliveryData,
              stats |->
                  [totalMeasurements |-> totalDeliveries,
                   averageDeviation |-> RDiv(SumSeq(devs), ToRat(totalDeliveries)),
                   maxDeviation |->
                       maxDeviationFrom(devs, locs, 1,
                                        DeviationPoint(ToRat(-1), NegInf)),
                   minDeviation |->
                       minDeviationFrom(devs, locs, 1,
                                        DeviationPoint(ToRat(-1), PosInf))]]

InsufficientPoints ==
    Error("Delivery validation requires at least two data points (e.g., before and after delivery).")

(***************************************************************************)
(* processDeliveryValidation, from the raw rows on.                        *)
(***************************************************************************)
IsDeliveryPoint(p) == NumericCell(p.height) /\ NumericCell(p.delivery)

processDeliveryValidation(rows, data) ==
    LET deliveryPoints == SelectSeq(rows, IsDeliveryPoint)
    IN  IF Len(deliveryPoints) < 2
        THEN InsufficientPoints
        ELSE calculateDeliveryValidation(deliveryPoints, data)

(***************************************************************************)
(* handleManualValidationSubmit: the try block, with the caught Error as   *)
(* the result.                                                             *)
(***************************************************************************)
handleManualValidationSubmit(pts, data) ==
    IF Len(pts) < 2
    THEN InsufficientPoints
    ELSE calculateDeliveryValidation(pts, data)

(***************************************************************************)
(* Inputs of the validation instance.  The curve is one of two charts over *)
(* the whole height range, one of them supplied in descending order; the   *)
(* rows of a file are well-formed rows or rows with a cell that is not a   *)
(* number.                                                                 *)
(***************************************************************************)
MaxReadings == 3
MaxChartRows == 2

ValidationCurves ==
    {<<Point(MaxHeight, MaxVolume), Point(0, 0)>>,
     <<Point(0, 0), Point(1, MaxVolume), Point(MaxHeight, 0)>>}

NonEmptySeqsUpTo(S, n) == UNION {[1..k -> S] : k \in 1..n}

\* A reading reports no delivery or a delivery of the largest volume; a field
\* volume is measured as empty or as the largest volume.
ReportedDeliveries == {0, MaxVolume}
FieldVolumes == {0, MaxVolume}

DeliveryPoints ==
    {[height |-> ToRat(h), delivery |-> ToRat(d)] :
        h \in Heights, d \in ReportedDeliveries}
DeliveryRows ==
    DeliveryPoints \cup {[height |-> NaN, delivery |-> ToRat(MaxVolume)],
                         [height |-> Zero, delivery |-> NaN]}

ValidationRows ==
    {[height |-> ToRat(h), fieldVolume |-> ToRat(v)] :
        h \in Heights, v \in FieldVolumes}
        \cup {[height |-> NaN, fieldVolume |-> Zero],
              [height |-> Zero, fieldVolume |-> NaN]}

ChartRows ==
    CurvePoints \cup {[height |-> NaN, chartVolume |-> Zero],
                      [height |-> Zero, chartVolume |-> NaN]}
ChartRowsWithField ==
    {[height |-> r.height, chartVolume |-> r.chartVolume, fieldVolume |-> f] :
        r \in CurvePoints, f \in {ToRat(v) : v \in FieldVolumes} \cup {NaN}}
        \cup {[height |-> NaN, chartVolume |-> Zero, fieldVolume |-> Zero],
              [height |-> Zero, chartVolume |-> NaN, fieldVolume |-> Zero]}

InitValidation ==
    /\ chartData \in ValidationCurves
    /\ op = "idle"
    /\ target = Zero
    /\ points = <<>>
    /\ result = NoResult
    /\ InitApp

\* The exported calculateDeliveryValidation called directly.
CalculateDeliveryValidation ==
    /\ op = "idle"
    /\ \E pts \in SeqsUpTo(DeliveryPoints, MaxReadings) :
           /\ op' = "calculateDeliveryValidation"
           /\ points' = pts
           /\ result' = calculateDeliveryValidation(pts, chartData)
           /\ UNCHANGED <<chartData, target, appVars>>

\* The manual entry form: its rows are already filtered to numeric pairs.
HandleManualValidationSubmit ==
    /\ op = "idle"
    /\ \E pts \in SeqsUpTo(DeliveryPoints, MaxReadings) :
           /\ op' = "handleManualValidationSubmit"
           /\ points' = pts
           /\ result' = handleManualValidationSubmit(pts, chartData)
           /\ UNCHANGED <<chartData, target, appVars>>

ProcessDeliveryValidation ==
    /\ op = "idle"
    /\ \E rows \in NonEmptySeqsUpTo(DeliveryRows, MaxReadings) :
           /\ op' = "processDeliveryValidation"
           /\ points' = rows
           /\ result' = processDeliveryValidation(rows, chartData)
           /\ UNCHANGED <<chartData, target, appVars>>

ProcessPointValidation ==
    /\ op = "idle"
    /\ \E rows \in NonEmptySeqsUpTo(ValidationRows, MaxReadings) :
           /\ op' = "processPointValidation"
           /\ points' = rows
           /\ result' = processPointValidation(rows, chartData)
           /\ UNCHANGED <<chartData, target, appVars>>

\* A chart file is analysed; its records become the chart, as in handleChartUpload.
ProcessAndAnalyzeData ==
    /\ op = "idle"
    /\ \E rows \in NonEmptySeqsUpTo(ChartRows, MaxChartRows)
                       \cup NonEmptySeqsUpTo(ChartRowsWithField, MaxChartRows) :
           /\ op' = "processAndAnalyzeData"
           /\ points' = rows
           /\ result' = processAndAnalyzeData(rows)
           /\ chartData' = IF result'.kind = "chart" THEN result'.data ELSE chartData
           /\ UNCHANGED <<target, appVars>>

NextValidation ==
    \/ CalculateDeliveryValidation
    \/ HandleManualValidationSubmit
    \/ ProcessDeliveryValidation
    \/ ProcessPointValidation
    \/ ProcessAndAnalyzeData

SpecValidation == InitValidation /\ [][NextValidation]_vars

(***************************************************************************)
(* Binary floating point.  A JavaScript number is an IEEE 754 double: the  *)
(* result of +, * and / is the exact result rounded to the nearest number  *)
(* with a 53-bit significand, ties to even.  The resampling grid is        *)
(* modelled with the same rounding at a significand of SignificandBits     *)
(* bits; exponent range and the other operators stay exact.                *)
(***************************************************************************)
SignificandBits == 3

RECURSIVE Pow2(_)
Pow2(k) == IF k = 0 THEN 1 ELSE 2 * Pow2(k - 1)

\* n / d rounded to the nearest integer, ties to the even one.
RoundHalfEven(n, d) ==
    LET q == n \div d
        r == n % d
    IN  IF 2 * r > d \/ (2 * r = d /\ q % 2 = 1) THEN q + 1 ELSE q

\* n / d > 0 rounded to SignificandBits significant bits.
RECURSIVE RoundPositive(_, _)
RoundPositive(n, d) ==
    IF n >= Pow2(SignificandBits) * d
    THEN RMul(ToRat(2), RoundPositive(n, 2 * d))
    ELSE IF n < Pow2(SignificandBits - 1) * d
    THEN RDiv(RoundPositive(2 * n, d), ToRat(2))
    ELSE ToRat(RoundHalfEven(n, d))

Fl(x) ==
    IF x.n = 0 THEN x
    ELSE IF x.n < 0 THEN RSub(Zero, RoundPositive(-x.n, x.d))
    ELSE RoundPositive(x.n, x.d)

FAdd(a, b) == Fl(RAdd(a, b))
FSub(a, b) == Fl(RSub(a, b))
FMul(a, b) == Fl(RMul(a, b))
FDiv(a, b) == Fl(RDiv(a, b))

(***************************************************************************)
(* generateStrappingChartData(chartData, points), for points >= 2 (every   *)
(* caller passes the default 300).                                         *)
(***************************************************************************)
generateStrappingChartData(data, n) ==
    IF Len(data) < 2 THEN data
    ELSE LET sorted == sortedChart(data)
             minHeight == sorted[1].height
             maxHeight == sorted[Len(sorted)].height
             heightStep == FDiv(FSub(maxHeight, minHeight), ToRat(n - 1))
         IN  [i \in 1..n |->
                 LET currentHeight == FAdd(minHeight, FMul(ToRat(i - 1), heightStep))
                 IN  [height |-> currentHeight,
                      chartVolume |-> interpolate(currentHeight, data)]]

(***************************************************************************)
(* Inputs of the resampling instance: curves over the heights 0, 1 and the *)
(* largest odd height the significand holds, and 2 to MaxPoints points.    *)
(***************************************************************************)
MaxPoints == 4

ResampleHeights == {0, 1, Pow2(SignificandBits) - 1}
ResampleCurves ==
    SeqsUpTo({Point(h, v) : h \in ResampleHeights, v \in Volumes}, MaxCurveLen)

InitResample ==
    /\ chartData \in ResampleCurves
    /\ op = "idle"
    /\ target = Zero
    /\ points = <<>>
    /\ result = NoResult
    /\ InitApp

\* points carries the argument points of the call.
GenerateStrappingChartData ==
    /\ op = "idle"
    /\ \E n \in 2..MaxPoints :
           /\ op' = "generateStrappingChartData"
           /\ points' = <<n>>
           /\ result' = [kind |-> "strapping",
                         value |-> generateStrappingChartData(chartData, n)]
           /\ UNCHANGED <<chartData, target, appVars>>

NextResample == GenerateStrappingChartData

SpecResample == InitResample /\ [][NextResample]_vars

(***************************************************************************)
(* Cells of a parsed row.  parseFileContent leaves in each cell the number *)
(* parseFloat read or, where parseFloat gave NaN, the trimmed text of the  *)
(* field; indexing a row shorter than the column index gives undefined.    *)
(* A text is its sequence of characters.  The normalizers convert the cell *)
(* with Number: Number("") is 0, Number of any other such text and         *)
(* Number(undefined) are NaN.                                              *)
(***************************************************************************)
Text(s) == [text |-> s]
EmptyText == Text(<<>>)

Number(cell) ==
    IF IsNum(cell) THEN cell
    ELSE IF cell = EmptyText THEN Zero
    ELSE NaN

\* height: Number(row[heightIndex]) and so on, for every column the caller reads.
numberRow(row) == [f \in DOMAIN row |-> Number(row[f])]
numberRows(rows) == [i \in 1..Len(rows) |-> numberRow(rows[i])]

(***************************************************************************)
(* Inputs of the normalizer instance: parsed rows whose required cells are *)
(* a number, empty, a word or missing, with at most one of them not a      *)
(* number.                                                                 *)
(***************************************************************************)
NonNumericCells == {EmptyText, Text(<<"n", "/", "a">>), Undefined}
HeightCells == {ToRat(1), ToRat(MaxHeight)}
VolumeCells == {ToRat(MaxVolume)}

CellPairs ==
    (HeightCells \X VolumeCells)
        \cup (NonNumericCells \X VolumeCells)
        \cup ({ToRat(1)} \X NonNumericCells)

ParsedChartRows == {[height |-> c[1], chartVolume |-> c[2]] : c \in CellPairs}
ParsedChartRowsWithField ==
    {[height |-> c[1], chartVolume |-> c[2], fieldVolume |-> f] :
        c \in CellPairs, f \in {Zero} \cup NonNumericCells}
ParsedValidationRows == {[height |-> c[1], fieldVolume |-> c[2]] : c \in CellPairs}
ParsedDeliveryRows == {[height |-> c[1], delivery |-> c[2]] : c \in CellPairs}

InitNormalize ==
    /\ chartData \in ValidationCurves
    /\ op = "idle"
    /\ target = Zero
    /\ points = <<>>
    /\ result = NoResult
    /\ InitApp

\* points carries the parsed rows of the file.
NormalizeChart ==
    /\ op = "idle"
    /\ \E rows \in NonEmptySeqsUpTo(ParsedChartRows, MaxChartRows)
                       \cup NonEmptySeqsUpTo(ParsedChartRowsWithField, MaxChartRows) :
           /\ op' = "processAndAnalyzeData"
           /\ points' = rows
           /\ result' = processAndAnalyzeData(numberRows(rows))
           /\ chartData' = IF result'.kind = "chart" THEN result'.data ELSE chartData
           /\ UNCHANGED <<target, appVars>>

NormalizePointValidation ==
    /\ op = "idle"
    /\ \E rows \in NonEmptySeqsUpTo(ParsedValidationRows, MaxReadings) :
           /\ op' = "processPointValidation"
           /\ points' = rows
           /\ result' = processPointValidation(numberRows(rows), chartData)
           /\ UNCHANGED <<chartData, target, appVars>>

NormalizeDeliveryValidation ==
    /\ op = "idle"
    /\ \E rows \in NonEmptySeqsUpTo(ParsedDeliveryRows, MaxReadings) :
           /\ op' = "processDeliveryValidation"
           /\ points' = rows
           /\ result' = processDeliveryValidation(numberRows(rows), chartData)
           /\ UNCHANGED <<chartData, target, appVars>>

NextNormalize ==
    \/ NormalizeChart
    \/ NormalizePointValidation
    \/ NormalizeDeliveryValidation

SpecNormalize == InitNormalize /\ [][NextNormalize]_vars

(***************************************************************************)
(* Strings.  A string is the sequence of its characters.  The characters   *)
(* of a file are the newline, the space, the delimiters "," and ";", the   *)
(* digits "1" and "2", the letters "a" and "b", and the sentinel           *)
(* [FUSION_ATG_TANK_TABLE], written "S", with its lower-case spelling "s", *)
(* each standing for the whole bracketed word.                             *)
(***************************************************************************)
Sentinel == <<"S">>

IsWhitespace(c) == c \in {" ", "\n"}
IsDigit(c) == c \in {"1", "2"}

RECURSIVE trimStart(_)
trimStart(s) ==
    IF s # <<>> /\ IsWhitespace(s[1]) THEN trimStart(Tail(s)) ELSE s

RECURSIVE trimEnd(_)
trimEnd(s) ==
    IF s # <<>> /\ IsWhitespace(s[Len(s)])
    THEN trimEnd(SubSeq(s, 1, Len(s) - 1))
    ELSE s

trim(s) == trimEnd(trimStart(s))

toUpperCase(s) ==
    [i \in 1..Len(s) |->
        CASE s[i] = "s" -> "S"
          [] s[i] = "a" -> "A"
          [] s[i] = "b" -> "B"
          [] OTHER -> s[i]]

includes(s, c) == \E i \in 1..Len(s) : s[i] = c

\* s.split(sep) for a one-character separator.
RECURSIVE split(_, _)
split(s, sep) ==
    IF ~includes(s, sep) THEN <<s>>
    ELSE LET k == Min({i \in 1..Len(s) : s[i] = sep})
         IN  <<SubSeq(s, 1, k - 1)>> \o split(SubSeq(s, k + 1, Len(s)), sep)

\* s.split(/\s+/): a run of whitespace is one separator.
RECURSIVE splitWhitespace(_)
splitWhitespace(s) ==
    IF \A i \in 1..Len(s) : ~IsWhitespace(s[i]) THEN <<s>>
    ELSE LET k == Min({i \in 1..Len(s) : IsWhitespace(s[i])})
         IN  <<SubSeq(s, 1, k - 1)>>
                 \o splitWhitespace(trimStart(SubSeq(s, k + 1, Len(s))))

\* The value of a run of digits read as a decimal numeral.
RECURSIVE DecimalValue(_, _)
DecimalValue(s, acc) ==
    IF s = <<>> \/ ~IsDigit(s[1]) THEN acc
    ELSE DecimalValue(Tail(s), 10 * acc + (IF s[1] = "1" THEN 1 ELSE 2))

\* parseFloat reads the longest numeric prefix after leading whitespace.
parseFloat(s) ==
    LET t == trimStart(s)
    IN  IF t = <<>> \/ ~IsDigit(t[1]) THEN NaN ELSE ToRat(DecimalValue(t, 0))

isNaN(x) == x = NaN

\* const num = parseFloat(field.trim()); return isNaN(num) ? field.trim() : num;
parseField(field) ==
    LET num == parseFloat(trim(field))
    IN  IF isNaN(num) THEN Text(trim(field)) ELSE num

parseFields(fields) == [i \in 1..Len(fields) |-> parseField(fields[i])]

slice02(fields) == SubSeq(fields, 1, IF Len(fields) < 2 THEN Len(fields) ELSE 2)

(***************************************************************************)
(* parseFileContent(text)                                                  *)
(***************************************************************************)
Parsed(headers, data) == [kind |-> "parsed", headers |-> headers, data |-> data]

DefaultHeaders ==
    << <<"H", "e", "i", "g", "h", "t">>, <<"V", "o", "l", "u", "m", "e">> >>

\* The first line compared with the sentinel as written, without toUpperCase.
isTaggedTableCaseSensitive(line) == trim(line) = Sentinel

isTaggedTable(line) == toUpperCase(trim(line)) = Sentinel

\* The first line taken as a header only if no field parses as a number.
firstLineIsHeaderEvery(firstLineFields) ==
    \A i \in 1..Len(firstLineFields) :
        isNaN(parseFloat(trim(firstLineFields[i])))

firstLineIsHeader(firstLineFields) ==
    \E i \in 1..Len(firstLineFields) :
        isNaN(parseFloat(trim(firstLineFields[i])))

parseTaggedTable(lines) ==
    IF Len(lines) < 3
    THEN Error("Fusion ATG file must have a header and at least one data row.")
    ELSE LET headerLine == lines[2]
             dataLines == SubSeq(lines, 3, Len(lines))
             hs == splitWhitespace(headerLine)
         IN  Parsed([i \in 1..Len(hs) |-> trim(hs[i])],
                    [i \in 1..Len(dataLines) |->
                        parseFields(splitWhitespace(trim(dataLines[i])))])

\* The headered branch without its check for a data row.
parseHeaderedUnchecked(lines, delimiter) ==
    LET hs == split(lines[1], delimiter)
        dataLines == SubSeq(lines, 2, Len(lines))
    IN  Parsed([i \in 1..Len(hs) |-> trim(hs[i])],
               [i \in 1..Len(dataLines) |->
                   parseFields(split(dataLines[i], delimiter))])

parseHeadered(lines, delimiter) ==
    IF Len(lines) < 2
    THEN Error("CSV file must have at least one data row.")
    ELSE LET hs == split(lines[1], delimiter)
             dataLines == SubSeq(lines, 2, Len(lines))
         IN  Parsed([i \in 1..Len(hs) |-> trim(hs[i])],
                    [i \in 1..Len(dataLines) |->
                        parseFields(split(dataLines[i], delimiter))])

parseHeaderless(lines, delimiter) ==
    LET data == [i \in 1..Len(lines) |->
                    parseFields(slice02(split(lines[i], delimiter)))]
    IN  IF Len(data) = 0
        THEN Error("No data rows found in the file.")
        ELSE Parsed(DefaultHeaders, data)

parseFileContent(text) ==
    LET trimmedText == trim(text)
    IN  IF trimmedText = <<>> THEN Error("File content is empty.")
        ELSE LET lines == split(trimmedText, "\n")
             IN  IF isTaggedTable(lines[1]) THEN parseTaggedTable(lines)
                 ELSE LET delimiter == IF includes(lines[1], ";") THEN ";" ELSE ","
                          firstLineFields == split(lines[1], delimiter)
                      IN  IF firstLineIsHeader(firstLineFields)
                          THEN parseHeadered(lines, delimiter)
                          ELSE parseHeaderless(lines, delimiter)

(***************************************************************************)
(* Inputs of the parser instance: a file is up to MaxLines lines, each one *)
(* of the lines below, joined by newlines.                                 *)
(***************************************************************************)
MaxLines == 4

FileLines ==
    { <<>>,
      <<"S">>,
      <<" ", "s", " ">>,
      <<"S", "1">>,
      <<"a", " ", " ", "b">>,
      <<"1", " ", "2">>,
      <<"a", ",", "b">>,
      <<"1", ",", "2", ",", "1">>,
      <<"1", ";", "2", ",", "1">>,
      <<"1", ",">> }

RECURSIVE join(_)
join(ls) ==
    IF Len(ls) = 1 THEN ls[1] ELSE ls[1] \o <<"\n">> \o join(Tail(ls))

FileTexts == {join(ls) : ls \in NonEmptySeqsUpTo(FileLines, MaxLines)}

InitParse ==
    /\ chartData = <<>>
    /\ op = "idle"
    /\ target = Zero
    /\ points = <<>>
    /\ result = NoResult
    /\ InitApp

\* points carries the text of the file.
ParseFileContent ==
    /\ op = "idle"
    /\ \E text \in FileTexts :
           /\ op' = "parseFileContent"
           /\ points' = text
           /\ result' = parseFileContent(text)
           /\ UNCHANGED <<chartData, target, appVars>>

NextParse == ParseFileContent

SpecParse == InitParse /\ [][NextParse]_vars

(***************************************************************************)
(* findHeaders(headers).  A header is the set of patterns its text         *)
(* matches: "height" for heightRegex, "volume" for volumeRegex, "field"    *)
(* for fieldVolumeRegex and "delivery" for deliveryRegex; two headers with *)
(* the same matches are the same text.  Every pattern needs at least one   *)
(* character, so a header that find returns is never the empty string.     *)
(***************************************************************************)
Patterns == {"height", "volume", "field", "delivery"}

Header(matches) == [matches |-> matches]

test(pattern, h) == pattern \in h.matches

\* headers.find(h => ...), for the headers at the indices where the test holds.
find(headers, indices) ==
    IF indices = {} THEN Undefined ELSE headers[Min(indices)]

\* The first header matching volumeRegex, whatever else it matches.
resolveVolumeHeaderFirstMatch(headers) ==
    find(headers, {i \in 1..Len(headers) : test("volume", headers[i])})

resolveVolumeHeader(headers) ==
    LET plain == find(headers, {i \in 1..Len(headers) :
                        test("volume", headers[i]) /\ ~test("field", headers[i])})
    IN  IF plain # Undefined THEN plain
        ELSE find(headers, {i \in 1..Len(headers) : test("volume", headers[i])})

\* A mapping only when a height and a volume header are found.
findHeadersWithoutDelivery(headers) ==
    LET heightHeader ==
            find(headers, {i \in 1..Len(headers) : test("height", headers[i])})
        volumeHeader == resolveVolumeHeader(headers)
        fieldVolumeHeader ==
            find(headers, {i \in 1..Len(headers) :
                test("field", headers[i]) /\ test("volume", headers[i])})
        deliveryHeader ==
            find(headers, {i \in 1..Len(headers) : test("delivery", headers[i])})
    IN  IF heightHeader # Undefined /\ volumeHeader # Undefined
        THEN [heightHeader |-> heightHeader,
              volumeHeader |-> volumeHeader,
              fieldVolumeHeader |-> fieldVolumeHeader,
              deliveryHeader |-> deliveryHeader]
        ELSE Null

findHeaders(headers) ==
    LET heightHeader ==
            find(headers, {i \in 1..Len(headers) : test("height", headers[i])})
        volumeHeader == resolveVolumeHeader(headers)
        fieldVolumeHeader ==
            find(headers, {i \in 1..Len(headers) :
                test("field", headers[i]) /\ test("volume", headers[i])})
        deliveryHeader ==
            find(headers, {i \in 1..Len(headers) : test("delivery", headers[i])})
    IN  IF heightHeader # Undefined
            /\ (volumeHeader # Undefined \/ deliveryHeader # Undefined)
        THEN [heightHeader |-> heightHeader,
              volumeHeader |-> volumeHeader,
              fieldVolumeHeader |-> fieldVolumeHeader,
              deliveryHeader |-> deliveryHeader]
        ELSE Null

(***************************************************************************)
(* Inputs of the header instance: header rows of up to MaxHeaders headers. *)
(***************************************************************************)
MaxHeaders == 3

HeaderRows == SeqsUpTo({Header(m) : m \in SUBSET Patterns}, MaxHeaders)

InitHeaders ==
    /\ chartData = <<>>
    /\ op = "idle"
    /\ target = Zero
    /\ points = <<>>
    /\ result = NoResult
    /\ InitApp

\* points carries the header row.
FindHeaders ==
    /\ op = "idle"
    /\ \E headers \in HeaderRows :
           /\ op' = "findHeaders"
           /\ points' = headers
           /\ result' = findHeaders(headers)
           /\ UNCHANGED <<chartData, target, appVars>>

NextHeaders == FindHeaders

SpecHeaders == InitHeaders /\ [][NextHeaders]_vars

(***************************************************************************)
(* The curve instance: interpolate and generateStrappingChartData called   *)
(* on the same family of curves.                                           *)
(***************************************************************************)
NextCurve ==
    \/ Interpolate
    \/ GenerateStrappingChartData

SpecCurve == InitResample /\ [][NextCurve]_vars

(***************************************************************************)
(* processValidationData, from the parsed file on: headerList is the       *)
(* header row and rawData the rows of cells that parseFileContent gave;    *)
(* the callee reads the cells at headerList.indexOf(header).               *)
(***************************************************************************)
indexOf(headers, h) == Min({i \in 1..Len(headers) : headers[i] = h})

\* row[index]: undefined beyond the last cell of the row.
cellAt(row, index) == IF index <= Len(row) THEN row[index] ELSE Undefined

deliveryColumns(headerList, rawData, headers) ==
    LET heightIndex == indexOf(headerList, headers.heightHeader)
        deliveryIndex == indexOf(headerList, headers.deliveryHeader)
    IN  [i \in 1..Len(rawData) |->
            [height |-> Number(cellAt(rawData[i], heightIndex)),
             delivery |-> Number(cellAt(rawData[i], deliveryIndex))]]

validationColumns(headerList, rawData, headers) ==
    LET heightIndex == indexOf(headerList, headers.heightHeader)
        volumeIndex == indexOf(headerList, headers.volumeHeader)
    IN  [i \in 1..Len(rawData) |->
            [height |-> Number(cellAt(rawData[i], heightIndex)),
             fieldVolume |-> Number(cellAt(rawData[i], volumeIndex))]]

\* The volume header tested before the delivery header.
validationTypeVolumeFirst(headers) ==
    IF headers # Null /\ headers.volumeHeader # Undefined THEN "point_validation"
    ELSE IF headers # Null /\ headers.deliveryHeader # Undefined
    THEN "delivery_validation"
    ELSE "none"

\* headers?.deliveryHeader, then headers?.volumeHeader.
validationType(headers) ==
    IF headers # Null /\ headers.deliveryHeader # Undefined
    THEN "delivery_validation"
    ELSE IF headers # Null /\ headers.volumeHeader # Undefined
    THEN "point_validation"
    ELSE "none"

UndeterminedType ==
    Error("Could not determine validation file type. Please ensure headers like 'Volume' or 'Fuel Delivery' are present.")

processValidationData(headerList, rawData, data) ==
    LET headers == findHeaders(headerList)
        type == validationType(headers)
    IN  IF type = "delivery_validation"
        THEN processDeliveryValidation(
                 deliveryColumns(headerList, rawData, headers), data)
        ELSE IF type = "point_validation"
        THEN processPointValidation(
                 validationColumns(headerList, rawData, headers), data)
        ELSE UndeterminedType

(***************************************************************************)
(* Inputs of the classification instance: header rows over a height, a     *)
(* volume, a delivery and an unrecognised header, and tables of rows of    *)
(* three cells or of one.                                                  *)
(***************************************************************************)
ValidationHeaders ==
    {Header({"height"}), Header({"volume"}), Header({"delivery"}), Header({})}

ValidationHeaderRows == SeqsUpTo(ValidationHeaders, MaxHeaders)

TableRows ==
    { <<ToRat(1), ToRat(MaxVolume), Zero>>,
      <<ToRat(MaxHeight), Zero, ToRat(MaxVolume)>>,
      <<ToRat(1)>> }

Tables == NonEmptySeqsUpTo(TableRows, MaxChartRows)

InitClassify ==
    /\ chartData \in ValidationCurves
    /\ op = "idle"
    /\ target = Zero
    /\ points = <<>>
    /\ result = NoResult
    /\ InitApp

\* points carries the parsed file: its header row and its rows.
ProcessValidationData ==
    /\ op = "idle"
    /\ \E headerList \in ValidationHeaderRows, rawData \in Tables :
           /\ op' = "processValidationData"
           /\ points' = [headers |-> headerList, data |-> rawData]
           /\ result' = processValidationData(headerList, rawData, chartData)
           /\ UNCHANGED <<chartData, target, appVars>>

NextClassify == ProcessValidationData

SpecClassify == InitClassify /\ [][NextClassify]_vars

(***************************************************************************)
(* The wizard.  A file is what the engine makes of its text: a chart file  *)
(* is its detected headers and its rows, a validation file its header row  *)
(* and its table, a project file the ProjectState it holds.  An            *)
(* asynchronous handler runs to its first await; the operation is then in  *)
(* flight, with the values its closure captured, until its continuation    *)
(* runs as one step.  The state updates of one handler or continuation     *)
(* take effect together.  Every read of a file delivers its text: a        *)
(* FileReader error (fileToText rejecting, reader.onerror) is not          *)
(* modelled.                                                               *)
(*                                                                         *)
(* In this instance chartData is the calibration curve: the records of the *)
(* most recent successful chart upload or project load.                    *)
(***************************************************************************)
MaxPending == 2

\* A File object or a file name, and a message shown to the user; null when absent.
File(name) == [name |-> name]
Message(text) == [message |-> text]

\* The array held in deliveryValidationData when it is not null.
Deliveries(records) == [records |-> records]

PlainChart ==
    [name |-> "plain.csv", heightHeader |-> "Height", volumeHeader |-> "Volume",
     rows |-> <<Point(0, 0), Point(MaxHeight, MaxVolume)>>]

CombinedChart ==
    [name |-> "combined.csv", heightHeader |-> "Height", volumeHeader |-> "Volume",
     rows |-> <<[height |-> Zero, chartVolume |-> ToRat(MaxVolume), fieldVolume |-> Zero],
                [height |-> ToRat(MaxHeight), chartVolume |-> Zero, fieldVolume |-> NaN]>>]

BrokenChart ==
    [name |-> "broken.csv", heightHeader |-> "Height", volumeHeader |-> "Volume",
     rows |-> <<[height |-> NaN, chartVolume |-> Zero]>>]

ChartFiles == {PlainChart, CombinedChart, BrokenChart}

PointFile ==
    [headers |-> <<Header({"height"}), Header({"volume"})>>,
     data |-> << <<ToRat(1), ToRat(MaxVolume)>> >>]

DeliveryFile ==
    [headers |-> <<Header({"height"}), Header({"delivery"})>>,
     data |-> << <<Zero, Zero>>, <<ToRat(MaxHeight), ToRat(MaxVolume)>> >>]

BrokenValidation ==
    [headers |-> <<Header({})>>, data |-> << <<Zero>> >>]

ValidationFiles == {PointFile, DeliveryFile, BrokenValidation}

\* The rows of the manual entry form, parsed and filtered by the form.
ManualEntries ==
    { <<[height |-> Zero, delivery |-> Zero],
        [height |-> ToRat(MaxHeight), delivery |-> ToRat(MaxVolume)]>>,
      <<[height |-> Zero, delivery |-> Zero]>> }

ClientNames == {"Default Client"}

\* JSON.stringify writes NaN as null and leaves out undefined properties, which
\* read back as undefined.
toJSON(x) == IF x = NaN THEN Null ELSE x

stringify(records) ==
    [i \in 1..Len(records) |->
        [f \in DOMAIN records[i] |-> toJSON(records[i][f])]]

\* The ProjectState handleSaveProject writes, as JSON.parse reads it back.
projectState(config, data, stats, file, deliveryData) ==
    [reportConfig |-> config,
     processedData |-> stringify(data),
     validationStats |-> stats,
     chartFileName |-> IF file # Null THEN file.name ELSE "Untitled Project",
     deliveryValidationData |-> deliveryData]

initialConfig(file) ==
    [heightHeader |-> file.heightHeader,
     volumeHeader |-> file.volumeHeader,
     columnOrder |-> "height-volume",
     decimalPlaces |-> 2]

\* { ...prev, ...initialConfig }
merge(prev, update) ==
    [f \in DOMAIN prev |-> IF f \in DOMAIN update THEN update[f] ELSE prev[f]]

\* Project files: one saved after the plain chart was configured, one saved after
\* its delivery validation, and one that is not JSON.
Corrupt == [special |-> "not JSON"]

PlainProject ==
    [name |-> "plain.adf",
     content |->
        projectState(merge(DefaultReportConfig, initialConfig(PlainChart)),
                     processAndAnalyzeData(PlainChart.rows).data,
                     Null, File("tank.csv"), Null)]

CorruptProject == [name |-> "corrupt.adf", content |-> Corrupt]

ProjectFiles == {PlainProject, CorruptProject}

InitWizard ==
    /\ chartData = <<>>
    /\ op = "idle"
    /\ target = Zero
    /\ points = <<>>
    /\ result = NoResult
    /\ InitApp

\* pending holds the operations in flight, at most MaxPending at a time; equal
\* operations in flight together are told apart by a copy number.
CanStart == Cardinality(pending) < MaxPending

InFlight == {q.operation : q \in pending}

Copies(operation) == Cardinality({q \in pending : q.operation = operation})

Started(operation) ==
    pending \cup {[operation |-> operation, copy |-> Copies(operation) + 1]}

Completed(operation) ==
    pending \ {[operation |-> operation, copy |-> Copies(operation)]}

\* handleChartUpload up to await fileToText.  The drop zone of step 1 accepts a
\* file also while an upload is in flight.
HandleChartUpload ==
    /\ step = UploadChart
    /\ CanStart
    /\ \E uploadedFile \in ChartFiles :
           /\ error' = Null
           /\ successMessage' = Null
           /\ chartFile' = File(uploadedFile.name)
           /\ projectFileName' = Null
           /\ isLoading' = TRUE
           /\ pending' = Started([kind |-> "chart", file |-> uploadedFile,
                                   processedData |-> <<>>])
           /\ UNCHANGED <<step, processedData, validationStats,
                          deliveryValidationData, reportConfig, engineVars>>

\* The continuation of handleChartUpload: the try block succeeded.
ChartUploadSucceeds(p) ==
    /\ p.kind = "chart"
    /\ \E analysed \in {processAndAnalyzeData(p.file.rows)} :
        /\ analysed.kind = "chart"
        /\ processedData' = analysed.data
        /\ validationStats' = analysed.stats
        /\ reportConfig' = merge(reportConfig, initialConfig(p.file))
        /\ step' = Configure
        /\ isLoading' = FALSE
        /\ pending' = Completed(p)
        /\ chartData' = analysed.data
        /\ UNCHANGED <<chartFile, projectFileName, error, successMessage,
                       deliveryValidationData, op, target, points, result>>

\* The catch block also drops the chart that was loaded before.
ChartUploadFailsClearingData(p) ==
    /\ p.kind = "chart"
    /\ \E analysed \in {processAndAnalyzeData(p.file.rows)} :
        /\ analysed.kind = "error"
        /\ error' = Message(analysed.message)
        /\ chartFile' = Null
        /\ processedData' = <<>>
        /\ isLoading' = FALSE
        /\ pending' = Completed(p)
        /\ UNCHANGED <<step, projectFileName, successMessage, validationStats,
                       deliveryValidationData, reportConfig, engineVars>>

\* The continuation of handleChartUpload: processAndAnalyzeData threw.
ChartUploadFails(p) ==
    /\ p.kind = "chart"
    /\ \E analysed \in {processAndAnalyzeData(p.file.rows)} :
        /\ analysed.kind = "error"
        /\ error' = Message(analysed.message)
        /\ chartFile' = Null
        /\ isLoading' = FALSE
        /\ pending' = Completed(p)
        /\ UNCHANGED <<step, projectFileName, successMessage, processedData,
                       validationStats, deliveryValidationData, reportConfig,
                       engineVars>>

HandleChartUploadCompletes ==
    \E p \in InFlight :
        \/ ChartUploadSucceeds(p)
        \/ ChartUploadFails(p)

\* The form of step 2 is submitted; the model lets the user edit the client name.
HandleConfigSubmit ==
    /\ step = Configure
    /\ \E name \in ClientNames :
           /\ error' = Null
           /\ successMessage' = Null
           /\ reportConfig' = [reportConfig EXCEPT !.clientName = name]
           /\ step' = Analysis
           /\ UNCHANGED <<chartFile, projectFileName, isLoading, processedData,
                          validationStats, deliveryValidationData, pending,
                          engineVars>>

\* onNavigateToValidation of the analysis view.
NavigateToValidation ==
    /\ step = Analysis
    /\ step' = ValidateData
    /\ UNCHANGED <<chartFile, projectFileName, isLoading, error, successMessage,
                   processedData, validationStats, deliveryValidationData,
                   reportConfig, pending, engineVars>>

\* handleValidationUpload up to await fileToText; the closure holds the
\* processedData of the render it was created in.
HandleValidationUpload ==
    /\ step = ValidateData
    /\ CanStart
    /\ \E validationFile \in ValidationFiles :
           /\ error' = Null
           /\ successMessage' = Null
           /\ isLoading' = TRUE
           /\ pending' = Started([kind |-> "validation", file |-> validationFile,
                                   processedData |-> processedData])
           /\ UNCHANGED <<step, chartFile, projectFileName, processedData,
                          validationStats, deliveryValidationData, reportConfig,
                          engineVars>>

\* The processedData a successful validation stores (lines 84 and 86).
validatedData(validated, captured) ==
    IF validated.kind = "delivery_validation"
    THEN captured
    ELSE validated.combinedData

ValidationUploadSucceeds(p) ==
    /\ p.kind = "validation"
    /\ \E validated \in
              {processValidationData(p.file.headers, p.file.data, p.processedData)} :
           /\ validated.kind # "error"
           /\ deliveryValidationData' =
                 IF validated.kind = "delivery_validation"
                 THEN Deliveries(validated.deliveryData)
                 ELSE Null
           /\ validationStats' = validated.stats
           /\ processedData' = validatedData(validated, p.processedData)
    /\ step' = FinalReport
    /\ isLoading' = FALSE
    /\ pending' = Completed(p)
    /\ UNCHANGED <<chartFile, projectFileName, error, successMessage,
                   reportConfig, engineVars>>

ValidationUploadFails(p) ==
    /\ p.kind = "validation"
    /\ \E validated \in
              {processValidationData(p.file.headers, p.file.data, p.processedData)} :
           /\ validated.kind = "error"
           /\ error' = Message(validated.message)
    /\ isLoading' = FALSE
    /\ pending' = Completed(p)
    /\ UNCHANGED <<step, chartFile, projectFileName, successMessage,
                   processedData, validationStats, deliveryValidationData,
                   reportConfig, engineVars>>

HandleValidationUploadCompletes ==
    \E p \in InFlight :
        \/ ValidationUploadSucceeds(p)
        \/ ValidationUploadFails(p)

\* handleManualValidationSubmit has no await: it runs to its end in one step.
\* The button of the form is disabled while isLoading.
ManualValidation(pts) ==
    /\ step = ValidateData
    /\ ~isLoading
    /\ successMessage' = Null
    /\ isLoading' = FALSE
    /\ \E validated \in {handleManualValidationSubmit(pts, processedData)} :
           IF validated.kind = "error"
           THEN /\ error' = Message(validated.message)
                /\ UNCHANGED <<step, processedData, validationStats,
                               deliveryValidationData>>
           ELSE /\ error' = Null
                /\ deliveryValidationData' = Deliveries(validated.deliveryData)
                /\ validationStats' = validated.stats
                /\ processedData' = processedData
                /\ step' = FinalReport
    /\ UNCHANGED <<chartFile, projectFileName, reportConfig, pending,
                   engineVars>>

HandleManualValidationSubmitRuns == \E pts \in ManualEntries : ManualValidation(pts)

\* New, Exit and Start Over.
HandleReset ==
    /\ step' = UploadChart
    /\ chartFile' = Null
    /\ projectFileName' = Null
    /\ processedData' = <<>>
    /\ validationStats' = Null
    /\ deliveryValidationData' = Null
    /\ error' = Null
    /\ successMessage' = Null
    /\ reportConfig' = DefaultReportConfig
    /\ chartData' = <<>>
    /\ UNCHANGED <<isLoading, pending, op, target, points, result>>

\* Back returns to the first step from anywhere.
previousStepToStart(s) == UploadChart

\* The step before s in the switch of handleBack, s itself in its default case.
previousStep(s) ==
    CASE s = Configure -> UploadChart
      [] s = Analysis -> Configure
      [] s = ValidateData -> Analysis
      [] s = FinalReport -> ValidateData
      [] OTHER -> s

HandleBack ==
    /\ error' = Null
    /\ successMessage' = Null
    /\ step' = previousStep(step)
    /\ UNCHANGED <<chartFile, projectFileName, isLoading, processedData,
                   validationStats, deliveryValidationData, reportConfig,
                   pending, engineVars>>

\* handleSaveProject: clearMessages, then saveAs starts the download of the
\* project state (projectState above) or throws.
HandleSaveProject ==
    /\ \/ /\ successMessage' =
                 Message("Project file download initiated. Please check your browser's downloads.")
          /\ error' = Null
       \/ /\ error' = Message("Failed to save project file.")
          /\ successMessage' = Null
    /\ UNCHANGED <<step, chartFile, projectFileName, isLoading, processedData,
                   validationStats, deliveryValidationData, reportConfig,
                   pending, engineVars>>

\* handleLoadProject up to reader.readAsText.
HandleLoadProject ==
    /\ CanStart
    /\ \E file \in ProjectFiles :
           /\ error' = Null
           /\ successMessage' = Null
           /\ isLoading' = TRUE
           /\ pending' = Started([kind |-> "load", file |-> file,
                                   processedData |-> <<>>])
           /\ UNCHANGED <<step, chartFile, projectFileName, processedData,
                          validationStats, deliveryValidationData, reportConfig,
                          engineVars>>

\* The step is left as it was.
StepAfterLoadKept == step

\* setStep(Step.Analysis): a loaded project opens at the analysis step.
StepAfterLoad == Analysis

\* reader.onload with a project file that parses.
LoadProjectSucceeds(p) ==
    /\ p.kind = "load"
    /\ p.file.content # Corrupt
    /\ reportConfig' = p.file.content.reportConfig
    /\ processedData' = p.file.content.processedData
    /\ validationStats' = p.file.content.validationStats
    /\ deliveryValidationData' = p.file.content.deliveryValidationData
    /\ chartFile' = File(p.file.content.chartFileName)
    /\ projectFileName' = File(p.file.name)
    /\ step' = StepAfterLoad
    /\ isLoading' = FALSE
    /\ pending' = Completed(p)
    /\ chartData' = p.file.content.processedData
    /\ UNCHANGED <<error, successMessage, op, target, points, result>>

\* reader.onload with JSON.parse throwing.
LoadProjectFails(p) ==
    /\ p.kind = "load"
    /\ p.file.content = Corrupt
    /\ error' = Message("Invalid or corrupted project file.")
    /\ isLoading' = FALSE
    /\ pending' = Completed(p)
    /\ UNCHANGED <<step, chartFile, projectFileName, successMessage,
                   processedData, validationStats, deliveryValidationData,
                   reportConfig, engineVars>>

HandleLoadProjectCompletes ==
    \E p \in InFlight :
        \/ LoadProjectSucceeds(p)
        \/ LoadProjectFails(p)

NextWizard ==
    \/ HandleChartUpload
    \/ HandleChartUploadCompletes
    \/ HandleConfigSubmit
    \/ NavigateToValidation
    \/ HandleValidationUpload
    \/ HandleValidationUploadCompletes
    \/ HandleManualValidationSubmitRuns
    \/ HandleReset
    \/ HandleBack
    \/ HandleSaveProject
    \/ HandleLoadProject
    \/ HandleLoadProjectCompletes

SpecWizard == InitWizard /\ [][NextWizard]_vars

(***************************************************************************)
(* Properties of interpolate.                                              *)
(***************************************************************************)
Interpolated == op = "interpolate"

KnotHeights(data) == {data[i].height : i \in 1..Len(data)}

\* The target lies between the lowest and the highest height of the curve.
InRange(h, data) ==
    /\ \E i \in 1..Len(data) : RLe(data[i].height, h)
    /\ \E i \in 1..Len(data) : RLe(h, data[i].height)

\* The volumes of the height-sorted copy never decrease.
VolumesNonDecreasing(data) ==
    LET s == sortedChart(data)
    IN  \A i \in 1..(Len(s) - 1) : RLe(s[i].chartVolume, s[i + 1].chartVolume)

\* C1 as stated: interpolate(p.height, curve) = p.chartVolume for every point p of
\* the curve, duplicate heights included.
C1_ExactAtEveryPoint ==
    Interpolated =>
        \A i \in 1..Len(chartData) :
            chartData[i].height = target => result.value = chartData[i].chartVolume

\* C1 amended: interpolate(p.height, curve) = p.chartVolume for every point p that
\* is the first point of the curve, in the caller's order, with its height.
C1_ExactAtFirstOfHeight ==
    Interpolated =>
        \A i \in 1..Len(chartData) :
            (/\ chartData[i].height = target
             /\ \A j \in 1..(i - 1) : chartData[j].height # target)
                => result.value = chartData[i].chartVolume

\* interpolate was applied at a knot that a later point of another volume repeats.
C1_Witness ==
    /\ Interpolated
    /\ \E i, j \in 1..Len(chartData) :
          /\ i < j
          /\ chartData[i].height = target
          /\ chartData[j].height = target
          /\ chartData[i].chartVolume # chartData[j].chartVolume
          /\ result.value = chartData[i].chartVolume

C3_OutOfRangeFirstPoint ==
    (Interpolated /\ Len(chartData) >= 1 /\ ~InRange(target, chartData)) =>
        LET first == sortedChart(chartData)[1]
        IN  /\ result.value = first.chartVolume
            /\ \A i \in 1..Len(chartData) : RLe(first.height, chartData[i].height)

\* interpolate was applied above the highest point of a curve whose highest and
\* lowest points differ in volume, and below the lowest point of such a curve.
C3_Witness ==
    /\ Interpolated
    /\ Len(chartData) >= 2
    /\ LET s == sortedChart(chartData)
       IN  /\ s[1].chartVolume # s[Len(s)].chartVolume
           /\ RLt(s[Len(s)].height, target)
           /\ result.value = s[1].chartVolume

DeliveryOps ==
    {"calculateDeliveryValidation", "handleManualValidationSubmit",
     "processDeliveryValidation"}

\* The readings that reach delivery validation: the numeric rows of a file, or
\* the points handed over by the caller.
Readings ==
    IF op = "processDeliveryValidation"
    THEN SelectSeq(points, IsDeliveryPoint) ELSE points

Delivered == op \in DeliveryOps /\ result.kind = "delivery_validation"

\* The k-th smallest element of a set of integers.
Nth(S, k) == CHOOSE i \in S : Cardinality({j \in S : j < i}) = k - 1

\* C5: delivery validation emits, in order, exactly one record for each reading
\* after the first whose reported delivery is non-zero, measured from the
\* immediately preceding reading, and the delivery of the first reading never
\* influences the output.
C5_OneRecordPerNonZeroDelivery ==
    Delivered =>
        LET r == Readings
            emitting == {i \in 2..Len(r) : r[i].delivery # Zero}
            dd == result.deliveryData
        IN  /\ Len(dd) = Cardinality(emitting)
            /\ \A k \in 1..Len(dd) :
                  LET i == Nth(emitting, k)
                  IN  /\ dd[k].heightBefore = r[i - 1].height
                      /\ dd[k].heightAfter = r[i].height
                      /\ dd[k].reportedDelivery = r[i].delivery
            /\ Len(r) >= 1 =>
                  \A d \in ReportedDeliveries :
                      calculateDeliveryValidation(
                          [r EXCEPT ![1].delivery = ToRat(d)], chartData) = result

\* A first reading with a delivery, a zero-delivery reading at another height and
\* a delivery after it gave one record, measured from the skipped reading.
C5_Witness ==
    /\ Delivered
    /\ Len(Readings) = 3
    /\ Readings[1].delivery # Zero
    /\ Readings[2].delivery = Zero
    /\ Readings[3].delivery # Zero
    /\ Readings[1].height # Readings[2].height
    /\ Len(result.deliveryData) = 1
    /\ result.deliveryData[1].heightBefore = Readings[2].height

\* C6: every emitted record has chartCalculatedDelivery = interpolate(heightAfter)
\* - interpolate(heightBefore) on the curve of the call, and deviation =
\* reportedDelivery - chartCalculatedDelivery.
C6_DeliveryRecordArithmetic ==
    Delivered =>
        \A k \in 1..Len(result.deliveryData) :
            LET d == result.deliveryData[k]
            IN  /\ d.chartCalculatedDelivery =
                      RSub(interpolate(d.heightAfter, chartData),
                           interpolate(d.heightBefore, chartData))
                /\ d.deviation = RSub(d.reportedDelivery, d.chartCalculatedDelivery)

\* A record whose chart delivery is a positive fraction and whose deviation is
\* not zero was emitted.
C6_Witness ==
    /\ Delivered
    /\ \E k \in 1..Len(result.deliveryData) :
          LET d == result.deliveryData[k]
          IN  /\ RLt(Zero, d.chartCalculatedDelivery)
              /\ d.chartCalculatedDelivery.d # 1
              /\ d.deviation # Zero

\* C7: delivery validation with fewer than 2 readings fails with an error, through
\* every entry point: the file, the manual entry handler and the direct call.
C7_FewerThanTwoReadingsFail ==
    (op \in DeliveryOps /\ Len(Readings) < 2) => result.kind = "error"

\* C8: point validation emits one record per valid input, in input order, with
\* chartVolume = interpolate(height, curve) and deviation = fieldVolume -
\* chartVolume; curve [(0,0),(100,1000)] and input (50,520) give 500 and 20.
C8_PointRecordsInInputOrder ==
    (op = "processPointValidation" /\ result.kind = "point_validation") =>
        LET valid == SelectSeq(points, IsValidationPoint)
            cd == result.combinedData
        IN  /\ Len(cd) = Len(valid)
            /\ \A k \in 1..Len(cd) :
                  /\ cd[k].height = valid[k].height
                  /\ cd[k].fieldVolume = valid[k].fieldVolume
                  /\ cd[k].chartVolume = interpolate(valid[k].height, chartData)
                  /\ cd[k].deviation = RSub(valid[k].fieldVolume, cd[k].chartVolume)
            /\ processPointValidation(
                   <<[height |-> ToRat(50), fieldVolume |-> ToRat(520)]>>,
                   <<Point(0, 0), Point(100, 1000)>>).combinedData
                 = <<[height |-> ToRat(50), chartVolume |-> ToRat(500),
                      fieldVolume |-> ToRat(520), deviation |-> ToRat(20)]>>

\* Two valid inputs in descending height order around a malformed row were
\* validated, the first against a fractional chart volume.
C8_Witness ==
    /\ op = "processPointValidation"
    /\ result.kind = "point_validation"
    /\ Len(points) = 3
    /\ ~IsValidationPoint(points[2])
    /\ Len(result.combinedData) = 2
    /\ RLt(result.combinedData[2].height, result.combinedData[1].height)
    /\ result.combinedData[1].chartVolume.d # 1
    /\ result.combinedData[1].deviation # Zero

\* C9: aggregating no deviation at all does not fail and gives the zero-value
\* stats record, for a chart file whose field-volume column holds no number and
\* for a delivery sequence that produced no record.
C9_EmptyAggregationIsZero ==
    /\ (/\ op = "processAndAnalyzeData"
        /\ HasFieldVolumeColumn(points)
        /\ \E i \in 1..Len(points) : IsChartRow(points[i])
        /\ \A i \in 1..Len(points) :
              IsChartRow(points[i]) => ~NumericCell(points[i].fieldVolume))
           => (result.kind = "chart" /\ result.stats = ZeroStats)
    /\ (/\ op \in DeliveryOps
        /\ op = "calculateDeliveryValidation" \/ Len(Readings) >= 2
        /\ \A i \in 2..Len(Readings) : Readings[i].delivery = Zero)
           => (/\ result.kind = "delivery_validation"
               /\ result.deliveryData = <<>>
               /\ result.stats = ZeroStats)

\* A chart file of two rows whose field volumes are not numbers was analysed.
C9_Witness ==
    /\ op = "processAndAnalyzeData"
    /\ HasFieldVolumeColumn(points)
    /\ result.kind = "chart"
    /\ Len(result.data) = 2
    /\ \A i \in 1..2 : result.data[i].deviation = Undefined
    /\ result.stats = ZeroStats

\* The records the aggregator iterates over, each with its location.
Aggregated ==
    IF Delivered
    THEN [k \in 1..Len(result.deliveryData) |->
             [loc |-> result.deliveryData[k].heightAfter,
              dev |-> result.deliveryData[k].deviation]]
    ELSE IF op = "processPointValidation" /\ result.kind = "point_validation"
    THEN [k \in 1..Len(result.combinedData) |->
             [loc |-> result.combinedData[k].height,
              dev |-> result.combinedData[k].deviation]]
    ELSE IF op = "processAndAnalyzeData" /\ result.kind = "chart"
                /\ result.stats # Null
    THEN [k \in 1..Len(result.data) |->
             [loc |-> result.data[k].height, dev |-> result.data[k].deviation]]
    ELSE <<>>

\* C10: for non-empty input maxDeviation (minDeviation) is the first record in
\* iteration order whose deviation is the maximum (minimum), reported with that
\* record's own height, heightAfter for a delivery record.
C10_FirstExtremeWins ==
    LET a == Aggregated
        valid == {k \in 1..Len(a) : IsNum(a[k].dev)}
        highest == {k \in valid : \A j \in valid : RLe(a[j].dev, a[k].dev)}
        lowest == {k \in valid : \A j \in valid : RLe(a[k].dev, a[j].dev)}
    IN  valid # {} =>
            /\ result.stats.maxDeviation
                 = DeviationPoint(a[Min(highest)].loc, a[Min(highest)].dev)
            /\ result.stats.minDeviation
                 = DeviationPoint(a[Min(lowest)].loc, a[Min(lowest)].dev)

\* Two delivery records at different post-delivery heights tied for the maximum
\* deviation, above a third, and the first of them was reported.
C10_Witness ==
    /\ Delivered
    /\ Len(result.deliveryData) = 2
    /\ result.deliveryData[1].deviation = result.deliveryData[2].deviation
    /\ result.deliveryData[1].heightAfter # result.deliveryData[2].heightAfter
    /\ result.stats.maxDeviation.height = result.deliveryData[1].heightAfter
    /\ result.stats.minDeviation.height = result.deliveryData[1].heightAfter

Resampled == op = "generateStrappingChartData"

DistinctHeights(data) == Cardinality(KnotHeights(data))

\* C12: for a curve with at least 2 distinct heights and n >= 2, resample returns
\* n points of strictly increasing height, the first at min(height) and the last
\* at max(height), each with volume interpolate(its height), so the first and the
\* last volume are the curve's volumes at its minimum and maximum height.
C12_EvenGridFromMinToMax ==
    (Resampled /\ DistinctHeights(chartData) >= 2) =>
        LET n == points[1]
            out == result.value
            sorted == sortedChart(chartData)
            minHeight == sorted[1].height
            maxHeight == sorted[Len(sorted)].height
        IN  /\ Len(out) = n
            /\ \A i \in 1..(n - 1) : RLt(out[i].height, out[i + 1].height)
            /\ out[1].height = minHeight
            /\ out[n].height = maxHeight
            /\ \A i \in 1..n :
                  out[i].chartVolume = interpolate(out[i].height, chartData)
            /\ out[1].chartVolume = interpolate(minHeight, chartData)
            /\ out[n].chartVolume = interpolate(maxHeight, chartData)

\* C13: resample returns its input unchanged whenever the input does not hold 2
\* points of distinct height: empty, a single point, or points of one height.
C13_UnchangedWithoutTwoHeights ==
    (Resampled /\ DistinctHeights(chartData) < 2) => result.value = chartData

(***************************************************************************)
(* Properties of the record normalizers.                                   *)
(***************************************************************************)
\* The cell holds a number: it is not missing, empty or non-numeric text.
IsNumericCell(cell) == IsNum(cell)

Project(recs, f, g) == [i \in 1..Len(recs) |-> <<recs[i][f], recs[i][g]>>]

ChartRowUsable(row) == IsNumericCell(row.height) /\ IsNumericCell(row.chartVolume)
ValidationRowUsable(row) == IsNumericCell(row.height) /\ IsNumericCell(row.fieldVolume)
DeliveryRowUsable(row) == IsNumericCell(row.height) /\ IsNumericCell(row.delivery)

\* C14: a normalizer drops every row with a required cell that is missing, empty
\* or non-numeric text, keeps in file order every row whose required cells are
\* all numbers, and fails when no row survives.  Required are (height, chart
\* volume), (height, field volume) and (height, delivery).
C14_OnlyNumericRowsSurvive ==
    /\ op = "processAndAnalyzeData" =>
          LET usable == SelectSeq(points, ChartRowUsable)
          IN  IF usable = <<>> THEN result.kind = "error"
              ELSE /\ result.kind = "chart"
                   /\ Project(result.data, "height", "chartVolume")
                        = Project(usable, "height", "chartVolume")
    /\ op = "processPointValidation" =>
          LET usable == SelectSeq(points, ValidationRowUsable)
          IN  IF usable = <<>> THEN result.kind = "error"
              ELSE /\ result.kind = "point_validation"
                   /\ Project(result.combinedData, "height", "fieldVolume")
                        = Project(usable, "height", "fieldVolume")
    /\ op = "processDeliveryValidation" =>
          LET usable == SelectSeq(points, DeliveryRowUsable)
          IN  IF Len(usable) < 2 THEN result.kind = "error"
              ELSE result = calculateDeliveryValidation(usable, chartData)

\* C15: a record of a calibration file has deviation = fieldVolume - chartVolume
\* when its row carries a numeric field volume and no deviation otherwise (no
\* field-volume column, or a field-volume cell that is not a number).  Stated for
\* files whose rows all have numeric height and chart volume, so that record i
\* stems from row i.
C15_DeviationIffNumericFieldVolume ==
    (/\ op = "processAndAnalyzeData"
     /\ result.kind = "chart"
     /\ \A i \in 1..Len(points) : ChartRowUsable(points[i])) =>
        /\ Len(result.data) = Len(points)
        /\ \A i \in 1..Len(points) :
              LET rec == result.data[i]
              IN  IF "fieldVolume" \in DOMAIN points[i]
                        /\ IsNumericCell(points[i].fieldVolume)
                  THEN /\ rec.fieldVolume = points[i].fieldVolume
                       /\ rec.deviation = RSub(rec.fieldVolume, rec.chartVolume)
                  ELSE rec.deviation = Undefined

(***************************************************************************)
(* Properties of the parser.                                               *)
(***************************************************************************)
Parsing == op = "parseFileContent"

IsBlank(s) == \A i \in 1..Len(s) : IsWhitespace(s[i])

\* The first line of the text that is not blank.
FirstNonBlankLine(text) ==
    LET ls == split(text, "\n")
    IN  ls[Min({i \in 1..Len(ls) : ~IsBlank(ls[i])})]

\* The first non-blank line, trimmed, is the sentinel in some letter case.
StartsWithSentinel(text) ==
    toUpperCase(trim(FirstNonBlankLine(text))) = toUpperCase(Sentinel)

\* The lines of the text from its first to its last non-blank character.
LinesOf(text) == split(trim(text), "\n")

ParsesAsNumber(field) == trim(field) # <<>> /\ IsDigit(trim(field)[1])

TrimAll(fields) == [i \in 1..Len(fields) |-> trim(fields[i])]

FusionError == Error("Fusion ATG file must have a header and at least one data row.")

\* C16: parse takes the tagged-table dialect exactly when the first non-empty line,
\* trimmed and compared case-insensitively, is the sentinel; then the second line
\* gives the headers, every later line is one data row, and fewer than 3 lines
\* are an error.
C16_TaggedIffSentinelFirst ==
    (Parsing /\ ~IsBlank(points)) =>
        LET lines == LinesOf(points)
        IN  IF StartsWithSentinel(points)
            THEN IF Len(lines) < 3 THEN result = FusionError
                 ELSE /\ result.kind = "parsed"
                      /\ result.headers = TrimAll(splitWhitespace(lines[2]))
                      /\ Len(result.data) = Len(lines) - 2
                      /\ \A i \in 1..Len(result.data) :
                            result.data[i]
                              = parseFields(splitWhitespace(trim(lines[i + 2])))
            ELSE /\ result # FusionError
                 /\ result.kind = "parsed" => Len(result.data) >= Len(lines) - 1

\* A file led by the padded lower-case sentinel was parsed as a tagged table with
\* two headers and two data rows.
C16_Witness ==
    /\ Parsing
    /\ points # <<>> /\ points[1] = " " /\ points[2] = "s"
    /\ result.kind = "parsed"
    /\ result.headers = << <<"a">>, <<"b">> >>
    /\ Len(result.data) = 2
    /\ result.data[1] = <<ToRat(1), ToRat(2)>>

\* C17: for text that is not a tagged table, split on ";" if the first line holds
\* one and on "," otherwise, the first line is the header row exactly when one of
\* its fields does not parse as a number; otherwise the headers are Height and
\* Volume, every line is a data row and each row keeps its first two fields.
C17_HeaderIffNonNumericField ==
    (Parsing /\ ~IsBlank(points) /\ ~StartsWithSentinel(points)) =>
        LET lines == LinesOf(points)
            delimiter == IF includes(lines[1], ";") THEN ";" ELSE ","
            first == split(lines[1], delimiter)
        IN  IF \E i \in 1..Len(first) : ~ParsesAsNumber(first[i])
            THEN result.kind = "parsed" =>
                    /\ result.headers = TrimAll(first)
                    /\ Len(result.data) = Len(lines) - 1
                    /\ \A i \in 1..Len(result.data) :
                          result.data[i] = parseFields(split(lines[i + 1], delimiter))
            ELSE /\ result.kind = "parsed"
                 /\ result.headers = DefaultHeaders
                 /\ Len(result.data) = Len(lines)
                 /\ \A i \in 1..Len(lines) :
                       LET fields == split(lines[i], delimiter)
                       IN  /\ Len(result.data[i]) <= 2
                           /\ \A j \in 1..Len(result.data[i]) :
                                 result.data[i][j] = parseField(fields[j])
                           /\ Len(fields) >= 2 => Len(result.data[i]) = 2

\* A headerless file whose first line has three numeric fields was parsed: the
\* default headers, the first line as a data row cut to two cells.
C17_Witness ==
    /\ Parsing
    /\ ~IsBlank(points)
    /\ Len(split(LinesOf(points)[1], ",")) = 3
    /\ result.kind = "parsed"
    /\ result.headers = DefaultHeaders
    /\ Len(result.data) = 2
    /\ result.data[1] = <<ToRat(1), ToRat(2)>>

\* C18: parse fails when the text is empty or blank, when a tagged table has
\* fewer than 3 lines, when a headered file has no data row after its header line
\* and when a headerless file yields no rows; a failure carries no headers or rows.
C18_ParseErrors ==
    Parsing =>
        /\ IsBlank(points) => result.kind = "error"
        /\ ~IsBlank(points) =>
              LET lines == LinesOf(points)
                  delimiter == IF includes(lines[1], ";") THEN ";" ELSE ","
                  first == split(lines[1], delimiter)
                  headered == \E i \in 1..Len(first) : ~ParsesAsNumber(first[i])
              IN  /\ (StartsWithSentinel(points) /\ Len(lines) < 3)
                        => result.kind = "error"
                  /\ (~StartsWithSentinel(points) /\ headered /\ Len(lines) < 2)
                        => result.kind = "error"
                  /\ (~StartsWithSentinel(points) /\ ~headered /\ Len(lines) = 0)
                        => result.kind = "error"
        /\ result.kind = "error" => DOMAIN result = {"kind", "message"}

\* A header line followed only by blank lines was rejected for want of a data row.
C18_Witness ==
    /\ Parsing
    /\ includes(points, "\n")
    /\ LinesOf(points) = << <<"a", ",", "b">> >>
    /\ result = Error("CSV file must have at least one data row.")

(***************************************************************************)
(* Properties of the header mapper.                                        *)
(***************************************************************************)
Mapped == op = "findHeaders"

Matching(category) == {i \in 1..Len(points) : category \in points[i].matches}

\* C19: mapHeaders returns a mapping exactly when some header matches the height
\* category and some header matches the volume or the delivery category; in every
\* other case it returns null.
C19_MappingIffHeightAndVolumeOrDelivery ==
    Mapped =>
        (result # Null <=>
            /\ Matching("height") # {}
            /\ Matching("volume") # {} \/ Matching("delivery") # {})

\* A header row with a height and a delivery header but no volume header was
\* mapped.
C19_Witness ==
    /\ Mapped
    /\ Matching("volume") = {}
    /\ Matching("height") # {}
    /\ result # Null
    /\ result.deliveryHeader # Undefined
    /\ result.volumeHeader = Undefined

\* C20: in a mapping, volumeHeader is the first header matching the volume but
\* not the field pattern if there is one and else the first header matching the
\* volume pattern; fieldVolumeHeader is the first header matching both; so with a
\* plain volume header and a field-volume header in the row the two differ,
\* whatever the column order.
C20_PlainVolumePreferred ==
    (Mapped /\ result # Null) =>
        LET volume == Matching("volume")
            plain == volume \ Matching("field")
            both == volume \cap Matching("field")
        IN  /\ plain # {} => result.volumeHeader = points[Min(plain)]
            /\ (plain = {} /\ volume # {}) => result.volumeHeader = points[Min(volume)]
            /\ both # {} => result.fieldVolumeHeader = points[Min(both)]
            /\ both = {} => result.fieldVolumeHeader = Undefined
            /\ (plain # {} /\ both # {})
                  => result.volumeHeader # result.fieldVolumeHeader

\* The field-volume header stood before the plain volume header and each was
\* resolved to its own column.
C20_Witness ==
    /\ Mapped
    /\ result # Null
    /\ Len(points) = 3
    /\ points[1].matches = {"field", "volume"}
    /\ points[2].matches = {"volume"}
    /\ result.volumeHeader = points[2]
    /\ result.fieldVolumeHeader = points[1]

\* The whitespace-separated tokens of a line.
Tokens(line) == splitWhitespace(trim(line))

\* C21: in a tagged table the header line and every data line are split alike on
\* runs of whitespace, so the k-th header labels the k-th token of each data row,
\* also when the header line begins or ends with whitespace: no empty header
\* shifts the columns.
C21_HeadersAlignWithTokens ==
    (Parsing /\ ~IsBlank(points) /\ StartsWithSentinel(points)
        /\ result.kind = "parsed") =>
        LET lines == LinesOf(points)
        IN  /\ result.headers = Tokens(lines[2])
            /\ \A i \in 1..Len(result.data) :
                  result.data[i] = parseFields(Tokens(lines[i + 2]))

(***************************************************************************)
(* Properties of the curve operations together.                            *)
(***************************************************************************)
\* Every reordering of the points of a curve.
Reorderings(data) ==
    LET n == Len(data)
    IN  {[i \in 1..n |-> data[f[i]]] :
            f \in {g \in [1..n -> 1..n] : \A i, j \in 1..n : g[i] = g[j] => i = j}}

PairwiseDistinctHeights(data) == DistinctHeights(data) = Len(data)

\* C22: for a curve of pairwise distinct heights interpolate(h, curve) and
\* resample(curve, n) depend only on the set of points: every permutation of the
\* curve gives the same result.
C22_OrderOfPointsIrrelevant ==
    PairwiseDistinctHeights(chartData) =>
        /\ Interpolated =>
              \A p \in Reorderings(chartData) :
                  interpolate(target, p) = result.value
        /\ Resampled =>
              \A p \in Reorderings(chartData) :
                  Project(generateStrappingChartData(p, points[1]),
                          "height", "chartVolume")
                    = Project(result.value, "height", "chartVolume")

\* A curve of three distinct heights supplied in descending order was
\* interpolated strictly between its two lowest knots to a positive volume.
C22_Witness ==
    /\ Interpolated
    /\ Len(chartData) = 3
    /\ RLt(chartData[3].height, chartData[2].height)
    /\ RLt(chartData[2].height, chartData[1].height)
    /\ RLt(chartData[3].height, target)
    /\ RLt(target, chartData[2].height)
    /\ RLt(Zero, result.value)

(***************************************************************************)
(* Properties of the classification of validation files.                   *)
(***************************************************************************)
Classified == op = "processValidationData"

HasHeader(category) == \E i \in 1..Len(points.headers) : category \in points.headers[i].matches

\* The first column whose header matches the category.
Column(category) ==
    Min({i \in 1..Len(points.headers) : category \in points.headers[i].matches})

\* The rows of the file with numbers in the columns of both categories.
UsableRows(c1, c2) ==
    SelectSeq(points.data,
              LAMBDA row : /\ IsNumericCell(cellAt(row, Column(c1)))
                           /\ IsNumericCell(cellAt(row, Column(c2))))

DeliveryResolved == HasHeader("height") /\ HasHeader("delivery")
VolumeOnlyResolved == HasHeader("height") /\ HasHeader("volume") /\ ~HasHeader("delivery")

ChartLoaded == chartData # <<>>

\* C24: once a chart has been loaded, processedData is the calibration curve of
\* the most recent successful chart upload or project load, so a validation
\* never changes the curve that a later validation interpolates against.
C24_ProcessedDataIsCalibrationCurve == ChartLoaded => processedData = chartData

\* The statistics parsed from an uploaded chart file.
StatsOf(file) == processAndAnalyzeData(file.rows).stats

\* C25: after a successful chart upload no validation result computed against an
\* earlier chart is left: deliveryValidationData is null and validationStats is
\* null or the statistics of the uploaded file.
C25_ChartUploadLeavesNoStaleValidation ==
    [][\A p \in InFlight :
          ChartUploadSucceeds(p) =>
              /\ deliveryValidationData' = Null
              /\ validationStats' \in {Null, StatsOf(p.file)}]_vars

ChartUploadsInFlight == {q \in pending : q.operation.kind = "chart"}

\* The chart files whose name is the one recorded in chartFile.
SelectedCharts(selected) == {f \in ChartFiles : selected = File(f.name)}

\* C26: when the last chart upload in flight completes - in particular the
\* second of two overlapping uploads, in either completion order - processedData
\* and validationStats are the ones parsed from the file recorded in chartFile.
C26_LastSelectedChartWins ==
    [][\A p \in InFlight :
          (/\ ChartUploadSucceeds(p) \/ ChartUploadFails(p)
           /\ ChartUploadsInFlight' = {})
          => \A f \in SelectedCharts(chartFile') :
                 /\ processedData' = processAndAnalyzeData(f.rows).data
                 /\ validationStats' = StatsOf(f)]_vars

\* C27: isLoading is true exactly while at least one asynchronous operation is
\* in flight.
C27_LoadingIffOperationInFlight == isLoading <=> pending # {}

\* C28: whenever the wizard is at the final report, validationStats is not null.
C28_FinalReportHasStats == step = FinalReport => validationStats # Null

\* The final report reached by a delivery validation, with nothing in flight.
C28_Witness ==
    /\ step = FinalReport
    /\ validationStats # Null
    /\ deliveryValidationData # Null
    /\ pending = {}

\* The outcome of the processing an operation in flight awaits.
Processed(p) ==
    IF p.kind = "chart"
    THEN processAndAnalyzeData(p.file.rows)
    ELSE processValidationData(p.file.headers, p.file.data, p.processedData)

\* An upload whose processing throws.
Fails(p) ==
    IF p.kind \in {"chart", "validation"} THEN Processed(p).kind = "error" ELSE FALSE

\* The entry is rejected by handleManualValidationSubmit.
Rejected(pts) == handleManualValidationSubmit(pts, processedData).kind = "error"

ResultsUnchanged ==
    UNCHANGED <<processedData, validationStats, deliveryValidationData,
                reportConfig, step>>

\* C29: a chart or validation upload whose processing fails, and a rejected
\* manual entry, leave processedData, validationStats, deliveryValidationData,
\* reportConfig and step as they were, both when the operation starts and when
\* it completes, record the error message and end with isLoading false.
C29_FailedOperationStoresNothing ==
    [][/\ \A q \in pending \ pending' :
             Fails(q.operation) =>
                 /\ ResultsUnchanged
                 /\ error' = Message(Processed(q.operation).message)
                 /\ isLoading' = FALSE
       /\ \A q \in pending' \ pending :
             Fails(q.operation) => ResultsUnchanged
       /\ \A pts \in ManualEntries :
             (ManualValidation(pts) /\ Rejected(pts)) =>
                 /\ ResultsUnchanged
                 /\ error' =
                       Message(handleManualValidationSubmit(pts, processedData).message)
                 /\ isLoading' = FALSE]_vars

\* A chart upload has failed after a chart had been loaded: the chart is kept.
C29_Witness ==
    /\ error = Message("No valid numeric data found.")
    /\ ChartLoaded
    /\ processedData = chartData
    /\ ~isLoading
    /\ pending = {}

Steps == {UploadChart, Configure, Analysis, ValidateData, FinalReport}

\* The step the wizard is at after Back, step by step.
StepBack ==
    (UploadChart :> UploadChart) @@ (Configure :> UploadChart)
        @@ (Analysis :> Configure) @@ (ValidateData :> Analysis)
        @@ (FinalReport :> ValidateData)

\* C30: handleBack moves the wizard exactly one step back, leaves the step at
\* UploadChart as it is, and never changes processedData, validationStats,
\* deliveryValidationData or reportConfig; the step is always one of the five
\* defined steps.
C30_BackMovesOneStep ==
    /\ [](step \in Steps)
    /\ [][HandleBack =>
             /\ step' = StepBack[step]
             /\ UNCHANGED <<processedData, validationStats,
                            deliveryValidationData, reportConfig>>]_vars

\* Back has led to the first step with the chart and a delivery validation
\* still loaded.
C30_Witness ==
    /\ step = UploadChart
    /\ ChartLoaded
    /\ processedData = chartData
    /\ deliveryValidationData # Null
    /\ pending = {}

====
